---- MODULE Spec2Model ----
(***************************************************************************)
(* Model of slack_notiphier: WebhookFirehose (webhook_firehose.py) and     *)
(* SlackClient (slack_client.py).                                          *)
(*                                                                         *)
(* Text is a sequence of pieces.  A piece is a single character where the  *)
(* code looks inside the text (comments, user names, mentions) and a whole *)
(* literal fragment of a format template elsewhere ("User ", " ").         *)
(* Python's None is NoneV for texts and identities, "None" for channel     *)
(* names, and the empty sequence for an optional message.                  *)
(***************************************************************************)
EXTENDS Integers, Sequences, FiniteSets, TLC

VARIABLES
    channels,     \* get_config('channels'): the channel map of the process
    users,        \* Users: the directory built at construction
    request,      \* the payload handle() is working on
    owner,        \* what PhabClient.get_owner answers for the request's object
    batch,        \* the list get_transactions returned
    idx,          \* position of the for loop of _handle_transactions
    pc,           \* position inside handle()
    exc,          \* the exception caught by handle(), "none" when none
    escaped,      \* an exception left handle()
    fault,        \* the first collaborator that raised during this request
    sent,         \* chat.postMessage calls made, oldest first
    mText,        \* mention resolution: the input text
    mOut,         \* mention resolution: the outputs of the successive runs
    cRepo,        \* channel routing: the repository name looked up
    cResult       \* channel routing: the result of the lookup

vars == <<channels, users, request, owner, batch, idx, pc, exc, escaped, fault,
          sent, mText, mOut, cRepo, cResult>>

handleVars == <<request, owner, batch, idx, pc, exc, escaped, fault, sent>>
mentionVars == <<mText, mOut>>
channelVars == <<cRepo, cResult>>

(***************************************************************************)
(* Bounds                                                                  *)
(***************************************************************************)
MaxBatch == 2     \* transactions in one request
MaxLen == 5       \* characters in a comment given to _replace_mentions
MaxRuns == 2      \* successive runs of _replace_mentions on its own output

NoneV == <<>>

(***************************************************************************)
(* Text helpers                                                            *)
(***************************************************************************)
StartsWith(text, prefix) ==
    /\ Len(prefix) <= Len(text)
    /\ SubSeq(text, 1, Len(prefix)) = prefix

MatchesAt(text, i, pat) ==
    /\ i + Len(pat) - 1 <= Len(text)
    /\ SubSeq(text, i, i + Len(pat) - 1) = pat

Contains(text, pat) == \E i \in 1..(Len(text) + 1) : MatchesAt(text, i, pat)

\* str.format of one argument: None prints as "None".
Fmt(v) == IF v = NoneV THEN <<"None">> ELSE v

(***************************************************************************)
(* Users (users.py) and PhabClient (phab_client.py)                        *)
(***************************************************************************)
P1 == <<"PHID-USER-1">>
P2 == <<"PHID-USER-2">>
P3 == <<"PHID-USER-3">>

\* Every account there is: Phabricator username and Slack member id.
People ==
    (P1 :> [phab_username |-> <<"a">>, slack_id |-> <<"U">>]) @@
    (P2 :> [phab_username |-> <<"a", "b">>, slack_id |-> <<"W">>]) @@
    (P3 :> [phab_username |-> <<"U">>, slack_id |-> <<"V">>])

\* The directory that knows exactly the accounts of S.
Directory(S) == [p \in S |-> People[p]]

\* self._users[phid] is truthy
Known(phid) == phid \in DOMAIN users

\* self._users[phid]['phab_username']
PhabUsername(phid) == IF Known(phid) THEN users[phid].phab_username ELSE NoneV

\* The chat tag of a Slack member id.
Mention(slack_id) == <<"<", "@">> \o slack_id \o <<">">>

\* self._users.get_mention(phid_or_username): the tag, or None when the
\* directory has no such account.
GetMention(key) ==
    LET hits == {p \in DOMAIN users : p = key \/ users[p].phab_username = key}
    IN  IF hits = {} THEN NoneV
        ELSE Mention(users[CHOOSE p \in hits : TRUE].slack_id)

\* self._phab_client.get_link(phid): the display string of a permalink.
GetLink(ref) == <<"<link ">> \o ref \o <<">">>

(***************************************************************************)
(* _replace_mentions                                                       *)
(***************************************************************************)
\* [\w_-]: the characters of the model's alphabet that the class matches.
WordChars == {"a", "b", "U", "V", "W", "_", "-"}

\* The index of the last character of the run of word characters that
\* starts at i; i - 1 when there is none.
RECURSIVE WordRunEnd(_, _)
WordRunEnd(text, i) ==
    IF i <= Len(text) /\ text[i] \in WordChars
    THEN WordRunEnd(text, i + 1)
    ELSE i - 1

\* _re_phab_mention.finditer(text) from position i on: the matches of
\* "@([\w_-]+)", leftmost first, greedy, not overlapping.
RECURSIVE FindIterFrom(_, _)
FindIterFrom(text, i) ==
    IF i > Len(text) THEN <<>>
    ELSE LET e == WordRunEnd(text, i + 1)
         IN  IF text[i] = "@" /\ e >= i + 1
             THEN <<[group0 |-> SubSeq(text, i, e),
                     group1 |-> SubSeq(text, i + 1, e)]>>
                  \o FindIterFrom(text, e + 1)
             ELSE FindIterFrom(text, i + 1)

FindIter(text) == FindIterFrom(text, 1)

\* The key under which a resolved match is stored: match.group(0).
ReplacementKey(match) == match.group0

\* The dict `replacements`, in insertion order: a key set again keeps its
\* place.
RECURSIVE BuildReplacements(_, _)
BuildReplacements(matches, acc) ==
    IF matches = <<>> THEN acc
    ELSE LET m == Head(matches)
             mention == GetMention(m.group1)
             key == ReplacementKey(m)
             seen == \E k \in 1..Len(acc) : acc[k].key = key
         IN  BuildReplacements(Tail(matches),
                 IF mention = NoneV \/ seen THEN acc
                 ELSE Append(acc, [key |-> key, mention |-> mention]))

\* str.replace(old, new) from position i on: every occurrence, left to
\* right, not overlapping.
RECURSIVE StrReplaceFrom(_, _, _, _)
StrReplaceFrom(text, i, old, new) ==
    IF i > Len(text) THEN <<>>
    ELSE IF MatchesAt(text, i, old)
         THEN new \o StrReplaceFrom(text, i + Len(old), old, new)
         ELSE <<text[i]>> \o StrReplaceFrom(text, i + 1, old, new)

\* Mutant: only the first occurrence is replaced.
StrReplaceMut(text, old, new) ==
    LET at == {i \in 1..Len(text) : MatchesAt(text, i, old)}
    IN  IF at = {} THEN text
        ELSE LET i == CHOOSE j \in at : \A k \in at : j <= k
             IN  SubSeq(text, 1, i - 1) \o new
                 \o SubSeq(text, i + Len(old), Len(text))

StrReplace(text, old, new) == StrReplaceFrom(text, 1, old, new)

RECURSIVE ApplyReplacements(_, _)
ApplyReplacements(text, reps) ==
    IF reps = <<>> THEN text
    ELSE ApplyReplacements(StrReplace(text, Head(reps).key, Head(reps).mention),
                           Tail(reps))

ReplaceMentions(text) ==
    ApplyReplacements(text, BuildReplacements(FindIter(text), <<>>))

(***************************************************************************)
(* Configuration (config.py) and SlackClient                               *)
(***************************************************************************)
\* dict.get(key): the value, or None
ChannelsGet(key) == IF key \in DOMAIN channels THEN channels[key] ELSE "None"

\* SlackClient._colors
Colors ==
    [none |-> "#F0F0F0", info |-> "#28D7E5", warn |-> "warning",
     error |-> "danger", success |-> "good"]

\* A message dict; a key the dict does not have is "absent".
Message(text, channel, type) == [text |-> text, channel |-> channel, type |-> type]

\* send_message: the arguments of the chat.postMessage call it makes.
SendMessage(message) ==
    [channel |-> IF message.channel # "absent" THEN message.channel
                 ELSE ChannelsGet("__default__"),
     color |-> Colors[IF message.type # "absent" THEN message.type ELSE "none"],
     text |-> message.text]

\* SlackClient.__init__ registers the debug callback with the Logger.
DebugCallbackSet == "__debug__" \in DOMAIN channels

\* Mutant: debug notes are sent with severity error.
SlackDebugCallbackMut(text) == Message(text, ChannelsGet("__debug__"), "error")

\* slack_debug_callback: the message it hands to send_message.
SlackDebugCallback(text) == Message(text, ChannelsGet("__debug__"), "info")

\* Logger.slack_debug: the messages it has the registered callback send.
SlackDebug(text) == IF DebugCallbackSet THEN <<SlackDebugCallback(text)>> ELSE <<>>

\* WebhookFirehose.__init__: the start-up message.
StartupMessage == Message(<<"Slack Notiphier started running.">>, "absent", "info")

\* Mutant: the repository's own entry is ignored.
GetChannelForRepoMut(repo_name) ==
    IF "__default__" \notin DOMAIN channels
    THEN [raised |-> TRUE, value |-> "None"]
    ELSE [raised |-> FALSE, value |-> channels["__default__"]]

\* _get_channel_for_repo: the default value is looked up before the
\* repository is, so a map without __default__ raises KeyError.
GetChannelForRepo(repo_name) ==
    IF "__default__" \notin DOMAIN channels
    THEN [raised |-> TRUE, value |-> "None"]
    ELSE [raised |-> FALSE,
          value |-> IF repo_name \in DOMAIN channels THEN channels[repo_name]
                    ELSE channels["__default__"]]

\* json.dumps
JsonDumps(v) == ToString(v)

(***************************************************************************)
(* The rendering functions.  Each returns the exception it raised ("none"  *)
(* when it returned), the message it returned (none for None) and the      *)
(* text it gave to Logger.slack_debug (none when it did not call it).      *)
(***************************************************************************)
Raise(e) == [exc |-> e, message |-> <<>>, note |-> <<>>]

Return(text, channel) ==
    [exc |-> "none", message |-> <<Message(text, channel, "absent")>>, note |-> <<>>]

\* Mutant: a subtype or type without a rule is an error.
NoMessageMut(t) == Raise("ValueError")

\* The last line of every rendering function, and the unregistered-type
\* branch of _handle_transaction: a debug note, and None is returned.
NoMessage(t) ==
    [exc |-> "none", message |-> <<>>,
     note |-> <<<<"No message will be generated for: ", JsonDumps(t)>>>>]

\* Mutant: the author is never reported unknown.
AuthorUnknownMut(t) == FALSE

\* not self._users[author_phid]
AuthorUnknown(t) == ~Known(t.author)

\* "{} {}".format(owner_mention, message)
Prefixed(owner_mention, message) == Fmt(owner_mention) \o <<" ">> \o message

\* task-add-comment: prefixed when there is an owner and the author is not
\* the owner.
TaskCommentText(owner_name, owner_mention, author_name, message) ==
    IF owner_name # NoneV /\ author_name # owner_name
    THEN Prefixed(owner_mention, message) ELSE message

\* task-change-status, task-change-priority, diff-add-comment: prefixed
\* when the author's name is not the owner's name.
ChangeText(owner_name, owner_mention, author_name, message) ==
    IF author_name # owner_name
    THEN Prefixed(owner_mention, message) ELSE message

\* Mutant: the owner comes first only when the author is not the owner.
OwnerFirstTextMut(owner_name, owner_mention, author_name, verb, diff_link) ==
    IF author_name # owner_name
    THEN Fmt(owner_mention) \o <<" ", "User ">> \o author_name \o <<verb>> \o diff_link
    ELSE <<"User ">> \o author_name \o <<verb>> \o diff_link

\* diff-accept, diff-request-changes, diff-commandeer:
\* "{} User {} <verb> diff {}".format(owner_mention, author_name, diff_link)
OwnerFirstText(owner_name, owner_mention, author_name, verb, diff_link) ==
    Fmt(owner_mention) \o <<" ", "User ">> \o author_name \o <<verb>> \o diff_link

HandleTask(t) ==
    LET task_link == GetLink(t.obj)
        owner_phid == owner
        owner_name == IF owner_phid # NoneV THEN PhabUsername(owner_phid) ELSE NoneV
        owner_mention == IF owner_phid # NoneV THEN GetMention(owner_phid) ELSE NoneV
        author_name == PhabUsername(t.author)
    IN  IF owner_phid # NoneV /\ ~Known(owner_phid) THEN Raise("ValueError")
        ELSE IF AuthorUnknown(t) THEN Raise("ValueError")
        ELSE CASE t.type = "task-create" ->
                    Return(<<"User ">> \o author_name \o <<" created task ">>
                           \o task_link, "absent")
               [] t.type = "task-add-comment" ->
                    Return(TaskCommentText(owner_name, owner_mention, author_name,
                               <<"User ">> \o author_name \o <<" commented on task ">>
                               \o task_link \o <<" with: ">>
                               \o ReplaceMentions(t.comment)), "absent")
               [] t.type = "task-claim" ->
                    Return(<<"User ">> \o author_name \o <<" claimed task ">>
                           \o task_link, "absent")
               [] t.type = "task-assign" ->
                    Return(<<"User ">> \o author_name \o <<" assigned ">>
                           \o (IF t.asignee # NoneV THEN Fmt(GetMention(t.asignee))
                               ELSE <<"nobody">>)
                           \o <<" to task ">> \o task_link, "absent")
               [] t.type = "task-change-status" ->
                    Return(ChangeText(owner_name, owner_mention, author_name,
                               <<"User ">> \o author_name
                               \o <<" changed the status of task ">> \o task_link
                               \o <<" from ">> \o t.old \o <<" to ">> \o t.new),
                           "absent")
               [] t.type = "task-change-priority" ->
                    Return(ChangeText(owner_name, owner_mention, author_name,
                               <<"User ">> \o author_name
                               \o <<" changed the priority of task ">> \o task_link
                               \o <<" from ">> \o t.old \o <<" to ">> \o t.new),
                           "absent")
               [] OTHER -> NoMessage(t)

HandleDiff(t) ==
    LET diff_link == GetLink(t.obj)
        owner_phid == owner
        owner_name == PhabUsername(owner_phid)
        owner_mention == GetMention(owner_phid)
        author_name == PhabUsername(t.author)
        channel == GetChannelForRepo(t.repo)
        Plain(verb) == Return(<<"User ">> \o author_name \o <<verb>> \o diff_link,
                              channel.value)
        OwnerFirst(verb) ==
            Return(OwnerFirstText(owner_name, owner_mention, author_name, verb,
                                  diff_link), channel.value)
    IN  IF ~Known(owner_phid) THEN Raise("ValueError")
        ELSE IF AuthorUnknown(t) THEN Raise("ValueError")
        ELSE IF channel.raised THEN Raise("KeyError")
        ELSE CASE t.type = "diff-create" -> Plain(" created diff ")
               [] t.type = "diff-add-comment" ->
                    Return(ChangeText(owner_name, owner_mention, author_name,
                               <<"User ">> \o author_name \o <<" commented on diff ">>
                               \o diff_link \o <<" with ">>
                               \o ReplaceMentions(t.comment)), channel.value)
               [] t.type = "diff-update" -> Plain(" updated diff ")
               [] t.type = "diff-abandon" -> Plain(" abandoned diff ")
               [] t.type = "diff-reclaim" -> Plain(" reclaimed diff ")
               [] t.type = "diff-accept" -> OwnerFirst(" accepted diff ")
               [] t.type = "diff-request-changes" ->
                    OwnerFirst(" requested changes to diff ")
               [] t.type = "diff-commandeer" -> OwnerFirst(" took command of diff ")
               [] OTHER -> NoMessage(t)

HandleCommit(t) ==
    LET commit_link == GetLink(t.obj)
        author_name == PhabUsername(t.author)
        channel == GetChannelForRepo(t.repo)
    IN  IF AuthorUnknown(t) THEN Raise("ValueError")
        ELSE IF channel.raised THEN Raise("KeyError")
        ELSE IF t.type = "commit-add-comment"
             THEN Return(<<"User ">> \o author_name \o <<" created commit ">>
                         \o commit_link \o <<" on repository ", t.repo>>,
                         channel.value)
             ELSE NoMessage(t)

HandleProj(t) ==
    LET proj_link == GetLink(t.obj)
        author_name == PhabUsername(t.author)
    IN  IF AuthorUnknown(t) THEN Raise("ValueError")
        ELSE IF t.type = "proj-create"
             THEN Return(<<"User ">> \o author_name \o <<" created project ">>
                         \o proj_link, "absent")
             ELSE NoMessage(t)

\* The object reference of a repository transaction is its 'repo' key.
HandleRepo(t) ==
    LET repo_link == GetLink(t.obj)
        author_name == PhabUsername(t.author)
    IN  IF AuthorUnknown(t) THEN Raise("ValueError")
        ELSE IF t.type = "repo-create"
             THEN Return(<<"User ">> \o author_name \o <<" created repository ">>
                         \o repo_link, "absent")
             ELSE NoMessage(t)

\* The keys of self._transaction_handlers
TransactionHandlers == {"TASK", "DREV", "CMIT", "PROJ", "REPO"}

\* Mutant: a type without a rendering function is rendered as a repository.
HandleTransactionMut(object_type, t) ==
    CASE object_type = "TASK" -> HandleTask(t)
      [] object_type = "DREV" -> HandleDiff(t)
      [] object_type = "CMIT" -> HandleCommit(t)
      [] object_type = "PROJ" -> HandleProj(t)
      [] OTHER -> HandleRepo(t)

HandleTransaction(object_type, t) ==
    IF object_type \notin TransactionHandlers THEN NoMessage(t)
    ELSE CASE object_type = "TASK" -> HandleTask(t)
           [] object_type = "DREV" -> HandleDiff(t)
           [] object_type = "CMIT" -> HandleCommit(t)
           [] object_type = "PROJ" -> HandleProj(t)
           [] OTHER -> HandleRepo(t)

(***************************************************************************)
(* The inputs: configurations, payloads and what the tracker answers       *)
(***************************************************************************)
ObjPhid == <<"PHID-OBJ">>

\* The channel maps a process is started with.
Configs ==
    { [__default__ |-> "#general"],
      [__default__ |-> "#general", __debug__ |-> "#debug", foo |-> "#foo"],
      [__debug__ |-> "#debug"] }

RepoNames == {"foo", "bar"}

\* "WIKI" stands for every object type without a rendering function.
ObjectTypes == TransactionHandlers \cup {"WIKI"}

\* The subtypes with a rule, per object type.
Rules(object_type) ==
    CASE object_type = "TASK" ->
            {"task-create", "task-add-comment", "task-claim", "task-assign",
             "task-change-status", "task-change-priority"}
      [] object_type = "DREV" ->
            {"diff-create", "diff-add-comment", "diff-update", "diff-abandon",
             "diff-reclaim", "diff-accept", "diff-request-changes",
             "diff-commandeer"}
      [] object_type = "CMIT" -> {"commit-add-comment"}
      [] object_type = "PROJ" -> {"proj-create"}
      [] object_type = "REPO" -> {"repo-create"}
      [] OTHER -> {}

\* "other" stands for every subtype without a rule.
Subtypes(object_type) == Rules(object_type) \cup {"other"}

SampleComment == <<"@", "a", " ", "a">>

\* The enriched transactions get_transactions can return for an object.
\* The source names the object reference 'task', 'diff', 'commit', 'proj'
\* or 'repo' by object type; it is obj here.
Transactions(object_type, repo) ==
    UNION { { [type |-> s, author |-> a, obj |-> ObjPhid, repo |-> repo,
               comment |-> IF s \in {"task-add-comment", "diff-add-comment"}
                           THEN SampleComment ELSE NoneV,
               asignee |-> g, old |-> <<"open">>, new |-> <<"resolved">>] :
              a \in {P1, P3},
              g \in IF s = "task-assign" THEN {P2, NoneV} ELSE {NoneV} } :
            s \in Subtypes(object_type) }

Batches(object_type, n) ==
    UNION { [1..n -> Transactions(object_type, repo)] :
            repo \in IF object_type \in {"DREV", "CMIT"} THEN RepoNames ELSE {"foo"} }

\* What get_owner can answer: tasks and diffs have owners.
Owners(object_type) ==
    IF object_type \in {"TASK", "DREV"} THEN {P1, P2, P3, NoneV} ELSE {NoneV}

TransactionPhids(n) == [i \in 1..n |-> [phid |-> i]]

WellFormed ==
    { [object |-> [type |-> ot, phid |-> ObjPhid], transactions |-> TransactionPhids(n)] :
      ot \in ObjectTypes, n \in 0..MaxBatch }

Malformed ==
    { [transactions |-> TransactionPhids(1)],
      [object |-> [type |-> "TASK"], transactions |-> TransactionPhids(1)],
      [object |-> [type |-> "TASK", phid |-> ObjPhid]] }

IsWellFormed(payload) ==
    /\ "object" \in DOMAIN payload
    /\ {"type", "phid"} \subseteq DOMAIN payload.object
    /\ "transactions" \in DOMAIN payload

(***************************************************************************)
(* handle(request)                                                         *)
(***************************************************************************)
\* One chat.postMessage call, with the place that made it and the position
\* of the transaction it was made for (0: none).
Call(message, origin, tx) == [call |-> SendMessage(message), origin |-> origin, tx |-> tx]

FirstFault(f) == IF fault = "none" THEN f ELSE fault

\* traceback.format_exc()
FormatExc == "Traceback (most recent call last): " \o exc

\* The error report of the except block.
ErrorMessage ==
    Message(<<"*Exception in Slack-Notiphier:* ", exc, "*Original message:* ",
              JsonDumps(request), "*Stacktrace:*", FormatExc>>, "absent", "error")

\* handle is called: the object's type and phid are read.  The calls made
\* are recorded per request.
Handle(payload, o) ==
    /\ pc = "idle"
    /\ request' = payload
    /\ owner' = o
    /\ batch' = <<>>
    /\ idx' = 1
    /\ escaped' = FALSE
    /\ fault' = "none"
    /\ sent' = <<>>
    /\ IF "object" \in DOMAIN payload
          /\ {"type", "phid"} \subseteq DOMAIN payload.object
       THEN pc' = "enrich" /\ exc' = "none"
       ELSE pc' = "except" /\ exc' = "KeyError"
    /\ UNCHANGED <<channels, users, mentionVars, channelVars>>

\* _get_transactions: the enrichment call returns a list or raises.
GetTransactions(f) ==
    /\ pc = "enrich"
    /\ IF "transactions" \notin DOMAIN request
       THEN /\ f = "none"
            /\ pc' = "except" /\ exc' = "KeyError"
            /\ UNCHANGED <<batch, fault>>
       ELSE IF f = "phab"
       THEN /\ pc' = "except" /\ exc' = "PhabError"
            /\ fault' = FirstFault(f)
            /\ UNCHANGED batch
       ELSE /\ f = "none"
            /\ batch' \in Batches(request.object.type, Len(request.transactions))
            /\ pc' = "loop"
            /\ UNCHANGED <<exc, fault>>
    /\ UNCHANGED <<channels, users, request, owner, idx, escaped, sent,
                   mentionVars, channelVars>>

\* One turn of the loop of _handle_transactions: the transaction is
\* rendered; its message, or the debug note, is sent.  f names the
\* collaborator that raises during the turn: the tracker (get_link,
\* get_owner) or Slack (chat.postMessage).
HandleTransactions(f) ==
    /\ pc = "loop"
    /\ idx <= Len(batch)
    /\ LET object_type == request.object.type
           r == HandleTransaction(object_type, batch[idx])
           notes == IF r.note = <<>> THEN <<>> ELSE SlackDebug(r.note[1])
           calls == IF r.exc # "none" THEN <<>>
                    ELSE IF notes # <<>> THEN <<Call(notes[1], "debug", idx)>>
                    ELSE IF r.message # <<>> THEN <<Call(r.message[1], "rendered", idx)>>
                    ELSE <<>>
       IN  CASE f = "phab" ->
                  /\ object_type \in TransactionHandlers
                  /\ pc' = "except" /\ exc' = "PhabError"
                  /\ fault' = FirstFault(f)
                  /\ UNCHANGED <<sent, idx>>
             [] f = "slack" ->
                  /\ calls # <<>>
                  /\ sent' = sent \o calls
                  /\ pc' = "except" /\ exc' = "SlackError"
                  /\ fault' = FirstFault(f)
                  /\ UNCHANGED idx
             [] OTHER ->
                  /\ f = "none"
                  /\ IF r.exc # "none"
                     THEN /\ pc' = "except" /\ exc' = r.exc
                          /\ UNCHANGED <<sent, idx>>
                     ELSE /\ sent' = sent \o calls
                          /\ idx' = idx + 1
                          /\ UNCHANGED <<pc, exc>>
                  /\ UNCHANGED fault
    /\ UNCHANGED <<channels, users, request, owner, batch, escaped,
                   mentionVars, channelVars>>

\* The loop is over: handle returns.
HandleReturn ==
    /\ pc = "loop"
    /\ idx > Len(batch)
    /\ pc' = "done"
    /\ UNCHANGED <<channels, users, request, owner, batch, idx, exc, escaped,
                   fault, sent, mentionVars, channelVars>>

\* The except block: the error report is built and sent; an exception of
\* send_message is not caught.
HandleExcept(f) ==
    /\ pc = "except"
    /\ f \in {"none", "slack"}
    /\ sent' = Append(sent, Call(ErrorMessage, "error", 0))
    /\ escaped' = (f = "slack")
    /\ fault' = FirstFault(f)
    /\ pc' = "done"
    /\ UNCHANGED <<channels, users, request, owner, batch, idx, exc,
                   mentionVars, channelVars>>

\* The caller (the /firehose route) answers; the record of the request
\* is dropped and the process waits for the next one.
Answer ==
    /\ pc = "done"
    /\ pc' = "idle"
    /\ request' = <<>>
    /\ owner' = NoneV
    /\ batch' = <<>>
    /\ idx' = 1
    /\ exc' = "none"
    /\ escaped' = FALSE
    /\ fault' = "none"
    /\ sent' = <<>>
    /\ UNCHANGED <<channels, users, mentionVars, channelVars>>

Init ==
    /\ channels \in Configs
    /\ users = Directory({P1, P2})
    /\ request = <<>>
    /\ owner = NoneV
    /\ batch = <<>>
    /\ idx = 1
    /\ pc = "idle"
    /\ exc = "none"
    /\ escaped = FALSE
    /\ fault = "none"
    /\ sent = <<Call(StartupMessage, "startup", 0)>>
    /\ mText = <<>>
    /\ mOut = <<>>
    /\ cRepo = "None"
    /\ cResult = [raised |-> FALSE, value |-> "None"]

Faults == {"none", "phab", "slack"}

Next ==
    \/ \E payload \in WellFormed : \E o \in Owners(payload.object.type) :
          Handle(payload, o)
    \/ \E payload \in Malformed : Handle(payload, NoneV)
    \/ \E f \in Faults : GetTransactions(f)
    \/ \E f \in Faults : HandleTransactions(f)
    \/ HandleReturn
    \/ \E f \in Faults : HandleExcept(f)
    \/ Answer

Spec == Init /\ [][Next]_vars

(***************************************************************************)
(* _replace_mentions on its own: any comment, any directory, run again on  *)
(* its own output.                                                         *)
(***************************************************************************)
Alphabet == {"@", "a", "b", "U", " "}

Texts == UNION { [1..n -> Alphabet] : n \in 0..MaxLen }

\* The text the next run is given.
CurrentText == IF mOut = <<>> THEN mText ELSE mOut[Len(mOut)]

Resolve ==
    /\ Len(mOut) < MaxRuns
    /\ mOut' = Append(mOut, ReplaceMentions(CurrentText))
    /\ UNCHANGED <<channels, users, handleVars, mText, channelVars>>

InitMentions ==
    /\ channels = [__default__ |-> "#general"]
    /\ users \in { Directory(S) : S \in SUBSET {P1, P2, P3} }
    /\ request = <<>>
    /\ owner = NoneV
    /\ batch = <<>>
    /\ idx = 1
    /\ pc = "idle"
    /\ exc = "none"
    /\ escaped = FALSE
    /\ fault = "none"
    /\ sent = <<>>
    /\ mText \in Texts
    /\ mOut = <<>>
    /\ cRepo = "None"
    /\ cResult = [raised |-> FALSE, value |-> "None"]

NextMentions == Resolve

SpecMentions == InitMentions /\ [][NextMentions]_vars

(***************************************************************************)
(* _get_channel_for_repo on its own: any channel map, any repository.      *)
(***************************************************************************)
ChannelKeys == {"__default__", "__debug__", "foo", "bar"}

ChannelNames == {"#general", "#foo"}

ChannelMaps == UNION { [K -> ChannelNames] : K \in SUBSET ChannelKeys }

LookedUp == {"foo", "bar", "baz"}

Lookup(repo_name) ==
    /\ cRepo' = repo_name
    /\ cResult' = GetChannelForRepo(repo_name)
    /\ UNCHANGED <<channels, users, handleVars, mentionVars>>

InitChannels ==
    /\ channels \in ChannelMaps
    /\ users = Directory({P1, P2})
    /\ request = <<>>
    /\ owner = NoneV
    /\ batch = <<>>
    /\ idx = 1
    /\ pc = "idle"
    /\ exc = "none"
    /\ escaped = FALSE
    /\ fault = "none"
    /\ sent = <<>>
    /\ mText = <<>>
    /\ mOut = <<>>
    /\ cRepo = "None"
    /\ cResult = [raised |-> FALSE, value |-> "None"]

NextChannels == \E repo_name \in LookedUp : Lookup(repo_name)

SpecChannels == InitChannels /\ [][NextChannels]_vars

(***************************************************************************)
(* Properties                                                              *)
(***************************************************************************)
Positions(origin) == {k \in 1..Len(sent) : sent[k].origin = origin}

\* The calls that carry the colour of severity error.
ErrorSeverity == {k \in 1..Len(sent) : sent[k].call.color = Colors["error"]}

ObjectType == request.object.type

Registered == IsWellFormed(request) /\ ObjectType \in TransactionHandlers

UnknownAuthors == {i \in 1..Len(batch) : batch[i].author \notin DOMAIN users}

\* C1: handle always completes without raising, whatever the payload and
\* whatever each collaborator call does.
C1_HandleNeverRaises == pc = "done" => ~escaped

\* C2: if some transaction of the batch has an author the directory cannot
\* resolve, one call of handle emits exactly one error-severity message and
\* no rendered message at all.  Stated for the requests on which an author
\* is looked up at all and nothing else goes wrong: a registered object
\* type, every collaborator call returning.
C2_OneErrorNoRendered ==
    (pc = "done" /\ Registered /\ fault = "none" /\ UnknownAuthors # {}) =>
        /\ Cardinality(ErrorSeverity) = 1
        /\ Positions("rendered") = {}

\* C2, amended: for a registered object type, if some transaction of the
\* batch has an author the directory cannot resolve, one call of handle
\* emits exactly one error-severity message and no rendered message for
\* the first such transaction or any transaction after it.
C2_OneErrorNoneFromOffender ==
    (pc = "done" /\ Registered /\ UnknownAuthors # {}) =>
        /\ Cardinality(ErrorSeverity) = 1
        /\ \A k \in Positions("rendered") :
              \A i \in UnknownAuthors : sent[k].tx < i

\* A batch of two whose second author is unknown: the first transaction
\* was rendered and sent, then the error report.
C2_Witness ==
    /\ pc = "done" /\ Registered /\ fault = "none"
    /\ UnknownAuthors = {2}
    /\ Len(sent) = 2
    /\ sent[1].origin = "rendered" /\ sent[1].tx = 1
    /\ sent[2].origin = "error"

\* C3: for an object type without a rendering function (payload well
\* formed, no collaborator call raising), handle sends no rendered message
\* and no error message and, when __debug__ is configured, exactly one
\* debug note per transaction of the batch, and none otherwise.
C3_UnregisteredType ==
    (pc = "done" /\ IsWellFormed(request) /\ fault = "none"
        /\ ObjectType \notin {"TASK", "DREV", "CMIT", "PROJ", "REPO"}) =>
        /\ Positions("rendered") = {}
        /\ ErrorSeverity = {}
        /\ Positions("error") = {}
        /\ IF "__debug__" \in DOMAIN channels
           THEN /\ Len(sent) = Len(batch)
                /\ \A i \in 1..Len(batch) :
                      /\ sent[i].origin = "debug" /\ sent[i].tx = i
                      /\ sent[i].call.channel = channels["__debug__"]
           ELSE sent = <<>>

C3_Witness ==
    /\ pc = "done" /\ IsWellFormed(request) /\ fault = "none"
    /\ ObjectType = "WIKI"
    /\ Len(batch) = 2 /\ UnknownAuthors = {2}
    /\ "__debug__" \in DOMAIN channels
    /\ Len(sent) = 2

\* The lookups a rendering function makes before it looks at the subtype
\* succeed for the transaction the loop is at.
LookupsSucceed ==
    /\ batch[idx].author \in DOMAIN users
    /\ ObjectType = "TASK" => (owner = NoneV \/ owner \in DOMAIN users)
    /\ ObjectType = "DREV" => owner \in DOMAIN users
    /\ ObjectType \in {"DREV", "CMIT"} => "__default__" \in DOMAIN channels

\* What the turn of the loop does with a transaction that is not an error:
\* no rendered message, no error message, one debug note when __debug__ is
\* configured, and the loop goes on with the next transaction.
NoteAndContinue ==
    /\ pc' = "loop" /\ idx' = idx + 1 /\ exc' = "none"
    /\ IF "__debug__" \in DOMAIN channels
       THEN /\ Len(sent') = Len(sent) + 1
            /\ SubSeq(sent', 1, Len(sent)) = sent
            /\ sent'[Len(sent')].origin = "debug"
            /\ sent'[Len(sent')].tx = idx
            /\ sent'[Len(sent')].call.channel = channels["__debug__"]
            /\ sent'[Len(sent')].call.color # Colors["error"]
       ELSE sent' = sent

\* C4: a transaction of a registered type whose subtype has no rule is not
\* an error: the turn of the loop sends no rendered message and no error
\* message, sends one debug note when __debug__ is configured, and the
\* loop goes on with the next transaction (no collaborator call raising).
C4_UnknownSubtypeNeverAnError ==
    [][ ( /\ pc = "loop" /\ idx <= Len(batch)
          /\ Registered
          /\ batch[idx].type \notin Rules(ObjectType)
          /\ fault' = "none" )
        => NoteAndContinue ]_vars

\* C4, amended: a transaction of a registered type whose subtype has no
\* rule, and for which the lookups made before the subtype is examined
\* succeed (the author resolves; a task's owner is absent or resolves; a
\* diff's owner resolves; __default__ is configured for a diff or commit),
\* is not an error: the turn of the loop sends no rendered message and no
\* error message, sends one debug note when __debug__ is configured, and
\* the loop goes on with the next transaction (no collaborator call
\* raising).
C4_UnknownSubtypeContinues ==
    [][ ( /\ pc = "loop" /\ idx <= Len(batch)
          /\ Registered
          /\ batch[idx].type \notin Rules(ObjectType)
          /\ LookupsSucceed
          /\ fault' = "none" )
        => NoteAndContinue ]_vars

\* A subtype without a rule at position 1, then a rendered transaction.
C4_Witness ==
    /\ pc = "done" /\ Registered /\ fault = "none" /\ exc = "none"
    /\ Len(batch) = 2
    /\ batch[1].type \notin Rules(ObjectType)
    /\ Len(sent) = 2
    /\ sent[1].origin = "debug" /\ sent[1].tx = 1
    /\ sent[2].origin = "rendered" /\ sent[2].tx = 2

OwnerFirstSubtypes == {"diff-accept", "diff-request-changes", "diff-commandeer"}

\* C5: every rendered diff-accept, diff-request-changes or diff-commandeer
\* message begins with the owner's mention and a space, also when the
\* author is the owner.
C5_OwnerMentionFirst ==
    \A k \in Positions("rendered") :
        (ObjectType = "DREV" /\ batch[sent[k].tx].type \in OwnerFirstSubtypes) =>
            StartsWith(sent[k].call.text,
                       <<"<", "@">> \o users[owner].slack_id \o <<">", " ">>)

C5_Witness ==
    \E k \in Positions("rendered") :
        /\ ObjectType = "DREV"
        /\ batch[sent[k].tx].type = "diff-commandeer"
        /\ batch[sent[k].tx].author = owner

\* The identities matched as @identity in the input that the directory
\* resolves.
ResolvedNames ==
    {n \in {FindIter(mText)[k].group1 : k \in 1..Len(FindIter(mText))} :
        \E p \in DOMAIN users : users[p].phab_username = n}

UnresolvedNames ==
    {FindIter(mText)[k].group1 : k \in 1..Len(FindIter(mText))} \ ResolvedNames

\* C6: the bare name of every resolved identity is nowhere in the output,
\* and a second run on the output returns it unchanged.
C6_BareNameGoneAndIdempotent ==
    Len(mOut) >= 1 =>
        /\ \A n \in ResolvedNames : ~Contains(mOut[1], n)
        /\ \A k \in 2..Len(mOut) : mOut[k] = mOut[1]

\* No resolvable identity name begins the member id of a known account.
NoNameInMemberId ==
    \A p \in DOMAIN users : \A q \in DOMAIN users :
        ~StartsWith(users[q].slack_id, users[p].phab_username)

\* C6, amended: when no resolvable identity name begins the member id
\* inside a chat mention, the text @identity of every resolved identity is
\* nowhere in the output, and every further run returns the output
\* unchanged.
C6_MentionTokenGoneAndIdempotent ==
    (Len(mOut) >= 1 /\ NoNameInMemberId) =>
        /\ \A n \in ResolvedNames : ~Contains(mOut[1], <<"@">> \o n)
        /\ \A k \in 2..Len(mOut) : mOut[k] = mOut[1]

\* A resolved mention was replaced and the bare name is still in the text.
C6_Witness ==
    /\ Len(mOut) = 2 /\ NoNameInMemberId
    /\ \E n \in ResolvedNames : Contains(mOut[1], n)
    /\ mOut[1] # mText

\* C7: with __default__ configured the lookup returns the channel mapped to
\* the repository when there is one and the __default__ channel otherwise;
\* it fails only when __default__ is not configured.
C7_ChannelRouting ==
    cRepo # "None" =>
        /\ "__default__" \in DOMAIN channels =>
              /\ ~cResult.raised
              /\ cRepo \in DOMAIN channels => cResult.value = channels[cRepo]
              /\ cRepo \notin DOMAIN channels =>
                    cResult.value = channels["__default__"]
        /\ cResult.raised => "__default__" \notin DOMAIN channels

C7_Witness ==
    /\ cRepo = "foo"
    /\ {"foo", "__default__"} \subseteq DOMAIN channels
    /\ channels["foo"] # channels["__default__"]
    /\ cResult.value = channels["foo"]

\* C8: only the except block of handle sends severity error: a call has
\* the error colour exactly when the except block made it; a request that
\* raised no exception made no such call and one that raised made one.
C8_ErrorOnlyFromExcept ==
    /\ ErrorSeverity = Positions("error")
    /\ pc = "done" =>
          Cardinality(ErrorSeverity) = (IF exc = "none" THEN 0 ELSE 1)
    /\ pc # "done" => ErrorSeverity = {}

\* A debug note, then a rendered message, then the error report.
C8_Witness ==
    /\ pc = "done" /\ exc # "none"
    /\ Len(sent) = 3
    /\ sent[1].origin = "debug"
    /\ sent[2].origin = "rendered"
    /\ sent[3].origin = "error"

\* C9: every @name whose name the directory does not resolve is in the
\* output as it was in the input.
C9_UnresolvedUntouched ==
    Len(mOut) >= 1 =>
        \A n \in UnresolvedNames : Contains(mOut[1], <<"@">> \o n)

PrefixSubtypes == {"task-add-comment", "task-change-status", "task-change-priority"}

\* C10: a rendered task comment, status change or priority change starts
\* with the owner's mention exactly when the task has an owner and the
\* author is not the owner; without an owner it starts with "User ".
C10_TaskOwnerPrefix ==
    \A k \in Positions("rendered") :
        (ObjectType = "TASK" /\ batch[sent[k].tx].type \in PrefixSubtypes) =>
            /\ owner # NoneV =>
                  (StartsWith(sent[k].call.text,
                              <<"<", "@">> \o users[owner].slack_id \o <<">", " ">>)
                   <=> batch[sent[k].tx].author # owner)
            /\ owner = NoneV => StartsWith(sent[k].call.text, <<"User ">>)

====
